---- MODULE Spec2Model ----
(***************************************************************************)
(* DataCatalogFacade (datacatalog_facade.py): a stateless facade over the  *)
(* remote Data Catalog client.  Each facade method is one action that runs *)
(* the whole method: it draws the arguments and the outcome of every       *)
(* remote call it makes, records the remote calls in `calls` and what the  *)
(* method hands back (a value or a raised exception) in `ret`.  The caller *)
(* is synchronous: it takes the result (Return) before the next call.      *)
(*                                                                         *)
(* The remote service is the environment.  For Entries its answers are     *)
(* drawn freely (any stored Entry, any failure).  For Tags the catalog's   *)
(* content on one Entry is kept in `catalogTags`, so that what a sequence  *)
(* of upsert_tags calls leaves in the catalog can be stated.               *)
(***************************************************************************)
EXTENDS Integers, Sequences, FiniteSets, TLC

VARIABLES pc, op, calls, ret, catalogTags

vars == <<pc, op, calls, ret, catalogTags>>

(* ------------------------------ bounds -------------------------------- *)

\* source_system_timestamps.update_time.seconds ranges over 0..MaxSeconds
MaxSeconds == 2

\* values of an Entry's compared string fields
Values == {"A", "B"}

Groups == {"g1", "g2"}

EntryIds == {"e1"}

\* an upsert_tags call is handed at most MaxTags tags
MaxTags == 2

\* the catalog holds at most MaxCatalogTags tags on the entry
MaxCatalogTags == 2

(* --------------------------- exceptions ------------------------------- *)

OK == "OK"

PermissionDenied == "PermissionDenied"

FailedPrecondition == "FailedPrecondition"

\* google.api_core.exceptions kinds the remote calls are drawn from; NotFound
\* stands for every kind the facade names nowhere.
Failures == {PermissionDenied, FailedPrecondition, "NotFound"}

Outcomes == {OK} \cup Failures

Returned(v) == [kind |-> "return", value |-> v]

Raised(e) == [kind |-> "raise", value |-> e]

NoRet == [kind |-> "none"]

NoOp == [name |-> "none"]

RemoteCall(api, args, outcome, result) ==
    [api |-> api, args |-> args, outcome |-> outcome, result |-> result]

(* ------------------------------ entries ------------------------------- *)

\* '{}/entries/{}'.format(entry_group_name, entry_id)
EntryName(entry_group_name, entry_id) ==
    entry_group_name \o "/entries/" \o entry_id

EntriesNamed(names) ==
    [name : names,
     user_specified_system : Values,
     user_specified_type : Values,
     display_name : Values,
     description : Values,
     linked_resource : Values,
     update_time : 0..MaxSeconds]

\* An Entry a connector hands to the facade: not yet named by the service, or
\* already carrying its resource name.
InputEntries(g, id) == EntriesNamed({"", EntryName(g, id)})

\* An Entry the service holds under a name.
PersistedEntries(g, id) == EntriesNamed({EntryName(g, id)})

NoEntry == [name |-> "<none>"]

\* utils.ValuesComparableObject.__eq__: two objects are equal when their
\* attribute dictionaries are.
ValuesComparableObjectEq(object_1, object_2) == object_1 = object_2

\* Mutant: description is left out of the comparison.
entries_are_equal_without_description(entry_1, entry_2) ==
    /\ entry_1.user_specified_system = entry_2.user_specified_system
    /\ entry_1.user_specified_type = entry_2.user_specified_type
    /\ entry_1.display_name = entry_2.display_name
    /\ entry_1.linked_resource = entry_2.linked_resource

entries_are_equal(entry_1, entry_2) ==
    LET object_1 == [user_specified_system |-> entry_1.user_specified_system,
                     user_specified_type |-> entry_1.user_specified_type,
                     display_name |-> entry_1.display_name,
                     description |-> entry_1.description,
                     linked_resource |-> entry_1.linked_resource]
        object_2 == [user_specified_system |-> entry_2.user_specified_system,
                     user_specified_type |-> entry_2.user_specified_type,
                     display_name |-> entry_2.display_name,
                     description |-> entry_2.description,
                     linked_resource |-> entry_2.linked_resource]
    IN ValuesComparableObjectEq(object_1, object_2)

\* Mutant: the update times are compared even when the new one is zero.
entry_was_updated_without_zero_check(current_entry, new_entry) ==
    \/ current_entry.update_time # new_entry.update_time
    \/ ~entries_are_equal(current_entry, new_entry)

\* Mutant: the update times are not compared at all.
entry_was_updated_without_time(current_entry, new_entry) ==
    ~entries_are_equal(current_entry, new_entry)

entry_was_updated(current_entry, new_entry) ==
    LET current_update_time == current_entry.update_time
        new_update_time == new_entry.update_time
        updated_time_changed ==
            new_update_time # 0 /\ current_update_time # new_update_time
    IN updated_time_changed \/ ~entries_are_equal(current_entry, new_entry)

\* The remote create: on success the service answers with the stored Entry,
\* named after its parent and id.
RemoteCreateEntry(parent, entry_id, entry, outcome) ==
    RemoteCall("create_entry",
               [parent |-> parent, entry_id |-> entry_id, entry |-> entry],
               outcome,
               IF outcome = OK
               THEN [entry EXCEPT !.name = EntryName(parent, entry_id)]
               ELSE NoEntry)

\* Mutant: every failure of the remote create is swallowed.
create_entry_swallows_all(entry_group_name, entry_id, entry, outcome) ==
    LET call == RemoteCreateEntry(entry_group_name, entry_id, entry, outcome)
    IN [calls |-> <<call>>,
        ret |-> IF outcome = OK THEN Returned(call.result) ELSE Returned(entry)]

\* Result of a facade method: the remote calls it made and what it hands back.
create_entry(entry_group_name, entry_id, entry, outcome) ==
    LET call == RemoteCreateEntry(entry_group_name, entry_id, entry, outcome)
    IN [calls |-> <<call>>,
        ret |-> IF outcome = OK THEN Returned(call.result)
                ELSE IF outcome = PermissionDenied THEN Returned(entry)
                ELSE Raised(outcome)]

get_entry(name, outcome, stored) ==
    LET call == RemoteCall("get_entry", [name |-> name], outcome,
                           IF outcome = OK THEN stored ELSE NoEntry)
    IN [calls |-> <<call>>,
        ret |-> IF outcome = OK THEN Returned(call.result) ELSE Raised(outcome)]

update_entry(entry, outcome) ==
    LET call == RemoteCall("update_entry", [entry |-> entry], outcome,
                           IF outcome = OK THEN entry ELSE NoEntry)
    IN [calls |-> <<call>>,
        ret |-> IF outcome = OK THEN Returned(call.result) ELSE Raised(outcome)]

\* Mutant: the PermissionDenied clause creates with the group and id swapped.
upsert_entry_except_swapped(exc, made, persisted_entry, entry_group_name, entry_id, entry, env) ==
    IF exc = PermissionDenied
    THEN LET c == create_entry(entry_id, entry_group_name, entry, env.create)
         IN [calls |-> made \o c.calls, ret |-> c.ret]
    ELSE IF exc = FailedPrecondition
    THEN [calls |-> made, ret |-> Returned(persisted_entry)]
    ELSE [calls |-> made, ret |-> Raised(exc)]

\* Mutant: the FailedPrecondition clause always hands back the input entry.
upsert_entry_except_returns_input(exc, made, persisted_entry, entry_group_name, entry_id, entry, env) ==
    IF exc = PermissionDenied
    THEN LET c == create_entry(entry_group_name, entry_id, entry, env.create)
         IN [calls |-> made \o c.calls, ret |-> c.ret]
    ELSE IF exc = FailedPrecondition
    THEN [calls |-> made, ret |-> Returned(entry)]
    ELSE [calls |-> made, ret |-> Raised(exc)]

\* The except clauses of upsert_entry, entered with the exception `exc` raised
\* in the try block after `made` remote calls, persisted_entry holding
\* `persisted_entry`.  An exception create_entry raises inside the
\* PermissionDenied clause is not caught by the FailedPrecondition clause.
upsert_entry_except(exc, made, persisted_entry, entry_group_name, entry_id, entry, env) ==
    IF exc = PermissionDenied
    THEN LET c == create_entry(entry_group_name, entry_id, entry, env.create)
         IN [calls |-> made \o c.calls, ret |-> c.ret]
    ELSE IF exc = FailedPrecondition
    THEN [calls |-> made, ret |-> Returned(persisted_entry)]
    ELSE [calls |-> made, ret |-> Raised(exc)]

\* env: the remote's answers: [get, stored, update, create]
upsert_entry(entry_group_name, entry_id, entry, env) ==
    LET entry_name == EntryName(entry_group_name, entry_id)
        g == get_entry(entry_name, env.get, env.stored)
    IN IF g.ret.kind = "raise"
       THEN upsert_entry_except(g.ret.value, g.calls, entry,
                                entry_group_name, entry_id, entry, env)
       ELSE LET persisted_entry == g.ret.value
            IN IF entry_was_updated(persisted_entry, entry)
               THEN LET u == update_entry(entry, env.update)
                    IN IF u.ret.kind = "raise"
                       THEN upsert_entry_except(u.ret.value, g.calls \o u.calls,
                                                persisted_entry,
                                                entry_group_name, entry_id,
                                                entry, env)
                       ELSE [calls |-> g.calls \o u.calls, ret |-> u.ret]
               ELSE [calls |-> g.calls, ret |-> Returned(persisted_entry)]

\* Mutant: the except clause names PermissionDenied instead of Exception.
delete_entry_catches_permission_denied(name, outcome) ==
    [calls |-> <<RemoteCall("delete_entry", [name |-> name], outcome, NoEntry)>>,
     ret |-> IF outcome \in {OK, PermissionDenied} THEN Returned(NoEntry)
             ELSE Raised(outcome)]

\* `except Exception` catches every kind the remote call raises; the method
\* returns None either way.
delete_entry(name, outcome) ==
    LET call == RemoteCall("delete_entry", [name |-> name], outcome, NoEntry)
        caught == outcome \in Failures
    IN [calls |-> <<call>>,
        ret |-> IF outcome = OK \/ caught THEN Returned(NoEntry)
                ELSE Raised(outcome)]

(* -------------------------------- tags -------------------------------- *)

\* A TagField of the service's schema, with the protobuf defaults.
DefaultTagField ==
    [bool_value |-> FALSE, double_value |-> 0, string_value |-> "",
     timestamp_seconds |-> 0, enum_display_name |-> ""]

StringField == [DefaultTagField EXCEPT !.string_value = "s"]

BoolField == [DefaultTagField EXCEPT !.bool_value = TRUE]

DoubleField == [DefaultTagField EXCEPT !.double_value = 1]

Templates == {"t1", "t2"}

\* The field maps tags are drawn from: two that differ in the value of the
\* same field, and one with a larger field-id set.
TagFieldMaps ==
    { [f \in {"f1"} |-> StringField],
      [f \in {"f1"} |-> BoolField],
      [f \in {"f1", "f2"} |-> IF f = "f1" THEN StringField ELSE DoubleField] }

\* name 0: not named by the service; name k > 0: '<entry>/tags/k'
InputTags == [name : {0}, template : Templates, fields : TagFieldMaps]

InputTagLists == UNION { [1..n -> InputTags] : n \in 0..MaxTags }

NoTag == [name |-> 0, template |-> "<none>"]

TheEntry == [name |-> EntryName("g1", "e1")]

\* tag.fields[field_id] on a protobuf message map: a missing key answers
\* with a default TagField.
TagFieldOf(tag, field_id) ==
    IF field_id \in DOMAIN tag.fields THEN tag.fields[field_id]
    ELSE DefaultTagField

\* Mutant: the field ids of both tags are iterated.
tags_fields_are_equal_symmetric(tag_1, tag_2) ==
    \A field_id \in DOMAIN tag_1.fields \cup DOMAIN tag_2.fields :
        TagFieldOf(tag_1, field_id) = TagFieldOf(tag_2, field_id)

tags_fields_are_equal(tag_1, tag_2) ==
    \A field_id \in DOMAIN tag_1.fields :
        LET tag_1_field == TagFieldOf(tag_1, field_id)
            tag_2_field == TagFieldOf(tag_2, field_id)
        IN /\ tag_1_field.bool_value = tag_2_field.bool_value
           /\ tag_1_field.double_value = tag_2_field.double_value
           /\ tag_1_field.string_value = tag_2_field.string_value
           /\ tag_1_field.timestamp_seconds = tag_2_field.timestamp_seconds
           /\ tag_1_field.enum_display_name = tag_2_field.enum_display_name

\* The remote calls on tags.  `catalog` is the catalog's tags on the entry;
\* each answers [calls, ret, catalog].
list_tags(entry_name, outcome, catalog) ==
    LET call == RemoteCall("list_tags", [parent |-> entry_name], outcome,
                           IF outcome = OK THEN catalog ELSE <<>>)
    IN [calls |-> <<call>>,
        ret |-> IF outcome = OK THEN Returned(call.result) ELSE Raised(outcome),
        catalog |-> catalog]

create_tag(entry_name, tag, outcome, catalog) ==
    LET created == [tag EXCEPT !.name = Len(catalog) + 1]
        call == RemoteCall("create_tag", [parent |-> entry_name, tag |-> tag],
                           outcome, IF outcome = OK THEN created ELSE NoTag)
    IN [calls |-> <<call>>,
        ret |-> IF outcome = OK THEN Returned(created) ELSE Raised(outcome),
        catalog |-> IF outcome = OK THEN Append(catalog, created) ELSE catalog]

update_tag(tag, outcome, catalog) ==
    LET call == RemoteCall("update_tag", [tag |-> tag], outcome,
                           IF outcome = OK THEN tag ELSE NoTag)
    IN [calls |-> <<call>>,
        ret |-> IF outcome = OK THEN Returned(tag) ELSE Raised(outcome),
        catalog |-> IF outcome = OK
                    THEN [k \in 1..Len(catalog) |->
                             IF catalog[k].name = tag.name THEN tag
                             ELSE catalog[k]]
                    ELSE catalog]

\* The inner loop of upsert_tags over persisted_tags, from position j.
\* acc: [tag, tag_to_create, tag_to_update]; the two flags say whether the
\* variable holds the tag (TRUE) or None (FALSE).  tag_to_update is the tag
\* object itself, so it carries the name assigned last.
RECURSIVE upsert_tags_match(_, _, _)
upsert_tags_match(j, persisted_tags, acc) ==
    IF j > Len(persisted_tags) THEN acc
    ELSE LET persisted_tag == persisted_tags[j]
         IN IF acc.tag.template = persisted_tag.template
            THEN LET tag == [acc.tag EXCEPT !.name = persisted_tag.name]
                 IN upsert_tags_match(j + 1, persisted_tags,
                        [tag |-> tag,
                         tag_to_create |-> FALSE,
                         tag_to_update |->
                             \/ acc.tag_to_update
                             \/ ~tags_fields_are_equal(tag, persisted_tag)])
            ELSE upsert_tags_match(j + 1, persisted_tags, acc)

\* The remote call numbered `fail` (counting this upsert_tags call's remote
\* calls from 1) raises; 0: none does.  upsert_tags catches nothing, so one
\* kind of exception stands for all.
TagOutcome(made, fail) == IF Len(made) + 1 = fail THEN "NotFound" ELSE OK

\* The outer loop of upsert_tags over tags, from position i.
RECURSIVE upsert_tags_loop(_, _, _, _, _, _, _)
upsert_tags_loop(i, tags, persisted_tags, entry, fail, made, catalog) ==
    IF i > Len(tags)
    THEN [calls |-> made, ret |-> Returned(NoTag), catalog |-> catalog]
    ELSE LET m == upsert_tags_match(1, persisted_tags,
                      [tag |-> tags[i], tag_to_create |-> TRUE,
                       tag_to_update |-> FALSE])
             r == IF m.tag_to_create
                  THEN create_tag(entry.name, tags[i],
                                  TagOutcome(made, fail), catalog)
                  ELSE IF m.tag_to_update
                  THEN update_tag(m.tag, TagOutcome(made, fail), catalog)
                  ELSE [calls |-> <<>>, ret |-> Returned(NoTag),
                        catalog |-> catalog]
         IN IF r.ret.kind = "raise"
            THEN [calls |-> made \o r.calls, ret |-> r.ret,
                  catalog |-> r.catalog]
            ELSE upsert_tags_loop(i + 1, tags, persisted_tags, entry, fail,
                                  made \o r.calls, r.catalog)

upsert_tags(entry, tags, fail, catalog) ==
    IF tags = <<>>
    THEN [calls |-> <<>>, ret |-> Returned(NoTag), catalog |-> catalog]
    ELSE LET l == list_tags(entry.name, TagOutcome(<<>>, fail), catalog)
         IN IF l.ret.kind = "raise"
            THEN l
            ELSE upsert_tags_loop(1, tags, l.ret.value, entry, fail,
                                  l.calls, l.catalog)

(* ------------------------------ actions ------------------------------- *)

Init ==
    /\ pc = "idle"
    /\ op = NoOp
    /\ calls = <<>>
    /\ ret = NoRet
    /\ catalogTags = <<>>

Finish(o, r) ==
    /\ pc' = "returned"
    /\ op' = o
    /\ calls' = r.calls
    /\ ret' = r.ret

CreateEntry ==
    /\ pc = "idle"
    /\ \E g \in Groups, id \in EntryIds, outcome \in Outcomes :
         \E entry \in InputEntries(g, id) :
            Finish([name |-> "create_entry", entry_group_name |-> g,
                    entry_id |-> id, entry |-> entry],
                   create_entry(g, id, entry, outcome))
    /\ UNCHANGED catalogTags

\* The remote's answers one upsert_entry call can meet.  Answers of calls
\* that follow a failed get_entry are drawn only for the create.
UpsertEnvs(g, id) ==
    [get : {OK}, stored : PersistedEntries(g, id),
     update : Outcomes, create : Outcomes]
    \cup
    [get : Failures, stored : {NoEntry}, update : {OK}, create : Outcomes]

UpsertEntry ==
    /\ pc = "idle"
    /\ \E g \in Groups, id \in EntryIds :
         \E entry \in InputEntries(g, id), env \in UpsertEnvs(g, id) :
            Finish([name |-> "upsert_entry", entry_group_name |-> g,
                    entry_id |-> id, entry |-> entry],
                   upsert_entry(g, id, entry, env))
    /\ UNCHANGED catalogTags

DeleteEntry ==
    /\ pc = "idle"
    /\ \E g \in Groups, id \in EntryIds, outcome \in Outcomes :
         Finish([name |-> "delete_entry", entry_name |-> EntryName(g, id)],
                delete_entry(EntryName(g, id), outcome))
    /\ UNCHANGED catalogTags

\* The synchronous caller takes the result; the facade keeps nothing.
Return ==
    /\ pc = "returned"
    /\ pc' = "idle"
    /\ op' = NoOp
    /\ calls' = <<>>
    /\ ret' = NoRet
    /\ UNCHANGED catalogTags

\* One upsert_tags call on the entry.  A call whose creates would not fit the
\* catalog's bound is not made.
UpsertTags ==
    /\ pc = "idle"
    /\ \E tags \in InputTagLists, fail \in 0..(MaxTags + 1) :
         LET r == upsert_tags(TheEntry, tags, fail, catalogTags)
         IN /\ fail <= Len(r.calls)
            /\ Len(r.catalog) <= MaxCatalogTags
            /\ Finish([name |-> "upsert_tags", entry |-> TheEntry,
                       tags |-> tags],
                      [calls |-> r.calls, ret |-> r.ret])
            /\ catalogTags' = r.catalog

TagNext == UpsertTags \/ Return

TagSpec == Init /\ [][TagNext]_vars

EntryNext == CreateEntry \/ UpsertEntry \/ DeleteEntry \/ Return

EntrySpec == Init /\ [][EntryNext]_vars

(* ------------------------------ claims -------------------------------- *)

ComparedFields ==
    {"user_specified_system", "user_specified_type", "display_name",
     "description", "linked_resource"}

FieldsDiffer(entry_1, entry_2) ==
    \E f \in ComparedFields : entry_1[f] # entry_2[f]

CallsTo(api) == SelectSeq(calls, LAMBDA c : c.api = api)

UpsertEntryReturned == pc = "returned" /\ op.name = "upsert_entry"

\* upsert_entry ran and its get_entry answered with the persisted copy
UpsertEntryFound == UpsertEntryReturned /\ calls[1].outcome = OK

\* upsert_entry ran and its get_entry failed with permission-denied
UpsertEntryAbsent == UpsertEntryReturned /\ calls[1].outcome = PermissionDenied

CreatedWithOriginalArguments ==
    /\ Len(CallsTo("create_entry")) = 1
    /\ Len(CallsTo("update_entry")) = 0
    /\ CallsTo("create_entry")[1].args =
           [parent |-> op.entry_group_name, entry_id |-> op.entry_id,
            entry |-> op.entry]

\* C1 as stated: when get_entry fails with permission-denied, upsert_entry
\* makes exactly one remote create call and no update call, the create call
\* carries the original group name, entry id and entry, and upsert_entry
\* returns the result of that create call.
C1_AsStated ==
    UpsertEntryAbsent =>
        /\ CreatedWithOriginalArguments
        /\ CallsTo("create_entry")[1].outcome = OK
        /\ ret = Returned(CallsTo("create_entry")[1].result)

\* C1 amended: when get_entry fails with permission-denied, upsert_entry makes
\* exactly one remote create call and no update call, with the original group
\* name, entry id and entry; it returns the result of that create call when
\* the call succeeds, returns the input entry when the call fails with
\* permission-denied, and lets any other failure of the call propagate.
C1_CreateWhenAbsent ==
    UpsertEntryAbsent =>
        /\ CreatedWithOriginalArguments
        /\ LET create == CallsTo("create_entry")[1]
           IN ret = IF create.outcome = OK THEN Returned(create.result)
                    ELSE IF create.outcome = PermissionDenied
                    THEN Returned(op.entry)
                    ELSE Raised(create.outcome)

C1_Witness ==
    /\ UpsertEntryAbsent
    /\ Len(calls) = 2
    /\ calls[2].api = "create_entry"
    /\ calls[2].outcome = OK
    /\ ret = Returned(calls[2].result)
    /\ ret.value # op.entry

\* C2: when get_entry succeeds and the persisted copy differs from the
\* supplied entry in at least one of the five compared fields, whatever the
\* two update times are, upsert_entry makes exactly one remote update call,
\* the call carries the supplied entry, and no create call is made when the
\* update succeeds.
C2_UpdateWhenFieldsDiffer ==
    (UpsertEntryFound /\ FieldsDiffer(calls[1].result, op.entry)) =>
        /\ Len(CallsTo("update_entry")) = 1
        /\ CallsTo("update_entry")[1].args.entry = op.entry
        /\ CallsTo("update_entry")[1].outcome = OK =>
               Len(CallsTo("create_entry")) = 0

\* persisted display_name "A", new display_name "B", both update times zero
C2_Witness ==
    /\ UpsertEntryFound
    /\ calls[1].result.display_name = "A"
    /\ op.entry.display_name = "B"
    /\ \A f \in ComparedFields \ {"display_name"} :
           calls[1].result[f] = op.entry[f]
    /\ calls[1].result.update_time = 0
    /\ op.entry.update_time = 0
    /\ Len(calls) = 2
    /\ calls[2].api = "update_entry"
    /\ calls[2].outcome = OK
    /\ calls[2].args.entry = op.entry

\* C3: when get_entry succeeds, the five compared fields of the supplied
\* entry are those of the persisted copy and the supplied entry's update time
\* is zero, upsert_entry makes no update call and no create call and returns
\* the persisted copy fetched by get_entry, whatever the persisted copy's own
\* update time is.
C3_NoCallWhenUpToDate ==
    (/\ UpsertEntryFound
     /\ ~FieldsDiffer(calls[1].result, op.entry)
     /\ op.entry.update_time = 0) =>
        /\ Len(CallsTo("update_entry")) = 0
        /\ Len(CallsTo("create_entry")) = 0
        /\ Len(calls) = 1
        /\ ret = Returned(calls[1].result)

C3_Witness ==
    /\ UpsertEntryFound
    /\ ~FieldsDiffer(calls[1].result, op.entry)
    /\ op.entry.update_time = 0
    /\ calls[1].result.update_time # 0
    /\ op.entry.name = ""
    /\ ret = Returned(calls[1].result)
    /\ ret.value # op.entry

\* a get_entry or update_entry call of upsert_entry failed with
\* failed-precondition
FailedPreconditionIn(api) ==
    /\ UpsertEntryReturned
    /\ \E k \in 1..Len(calls) :
          calls[k].api = api /\ calls[k].outcome = FailedPrecondition

NoRetryNoCreate ==
    /\ ret.kind = "return"
    /\ Len(CallsTo("get_entry")) = 1
    /\ Len(CallsTo("update_entry")) <= 1
    /\ Len(CallsTo("create_entry")) = 0

\* C6 as stated: whenever get_entry, or the update call that follows a
\* successful get_entry, fails with failed-precondition, upsert_entry does
\* not raise, does not retry, makes no create call and returns the input
\* entry unchanged.
C6_AsStated ==
    (FailedPreconditionIn("get_entry") \/ FailedPreconditionIn("update_entry"))
        => (NoRetryNoCreate /\ ret.value = op.entry)

\* C6 amended: whenever get_entry, or the update call that follows a
\* successful get_entry, fails with failed-precondition, upsert_entry does
\* not raise, does not retry and makes no create call; it returns the input
\* entry unchanged when get_entry failed, and the persisted copy fetched by
\* get_entry when the update call failed.
C6_FailedPreconditionIsSkipped ==
    /\ FailedPreconditionIn("get_entry") =>
           (NoRetryNoCreate /\ ret.value = op.entry)
    /\ FailedPreconditionIn("update_entry") =>
           (NoRetryNoCreate /\ ret.value = calls[1].result)

C6_Witness ==
    /\ FailedPreconditionIn("update_entry")
    /\ ret = Returned(calls[1].result)
    /\ ret.value # op.entry

\* C7: delete_entry never raises: whatever the remote delete call does
\* (success, permission-denied, failed-precondition, not-found or any other
\* failure), delete_entry makes exactly one remote delete call, for the name
\* it was given, and returns normally.
C7_DeleteNeverRaises ==
    (pc = "returned" /\ op.name = "delete_entry") =>
        /\ Len(calls) = 1
        /\ calls[1].api = "delete_entry"
        /\ calls[1].args.name = op.entry_name
        /\ ret.kind = "return"

C7_Witness ==
    /\ pc = "returned"
    /\ op.name = "delete_entry"
    /\ calls[1].outcome = FailedPrecondition
    /\ ret.kind = "return"

\* C8: create_entry makes exactly one remote create call, with its own
\* arguments; when the call fails with permission-denied it returns the input
\* entry unchanged, when it fails with any other kind (failed-precondition
\* included) the failure propagates, and when it succeeds the entry the
\* remote call returned is returned.
C8_CreateEntry ==
    (pc = "returned" /\ op.name = "create_entry") =>
        /\ Len(calls) = 1
        /\ calls[1].api = "create_entry"
        /\ calls[1].args = [parent |-> op.entry_group_name,
                            entry_id |-> op.entry_id, entry |-> op.entry]
        /\ calls[1].outcome = OK => ret = Returned(calls[1].result)
        /\ calls[1].outcome = PermissionDenied => ret = Returned(op.entry)
        /\ calls[1].outcome \notin {OK, PermissionDenied} =>
               ret = Raised(calls[1].outcome)

C8_Witness ==
    /\ pc = "returned"
    /\ op.name = "create_entry"
    /\ calls[1].outcome = PermissionDenied
    /\ op.entry.name = ""
    /\ ret = Returned(op.entry)

\* C9: upsert_entry takes the persisted entry as changed (and makes the update
\* call) if and only if the new entry's update time is nonzero and differs
\* from the persisted one's, or one of the five compared fields differs; with
\* a zero new update time only the five fields decide, and a nonzero new
\* update time different from the persisted one forces the update even when
\* the five fields are identical.
C9_ChangeDetection ==
    UpsertEntryFound =>
        LET persisted == calls[1].result
            new == op.entry
            updated == Len(calls) >= 2 /\ calls[2].api = "update_entry"
        IN /\ updated <=>
                 \/ new.update_time # 0
                    /\ new.update_time # persisted.update_time
                 \/ FieldsDiffer(persisted, new)
           /\ new.update_time = 0 => (updated <=> FieldsDiffer(persisted, new))

C9_Witness ==
    /\ UpsertEntryFound
    /\ ~FieldsDiffer(calls[1].result, op.entry)
    /\ op.entry.update_time # 0
    /\ calls[1].result.update_time # 0
    /\ op.entry.update_time # calls[1].result.update_time
    /\ Len(calls) = 2
    /\ calls[2].api = "update_entry"

UpsertTagsReturned == pc = "returned" /\ op.name = "upsert_tags"

\* the create and update calls of the last facade call
TagWrites == SelectSeq(calls, LAMBDA c : c.api \in {"create_tag", "update_tag"})

SameContent(tag_1, tag_2) ==
    tag_1.template = tag_2.template /\ tag_1.fields = tag_2.fields

\* C4 as stated: for every input list and every set of persisted tags, one
\* upsert_tags call makes at most one create-or-update call per input tag,
\* and no create or update call for an input tag whose field values exactly
\* match a persisted tag with the same template id.
C4_AsStated ==
    (UpsertTagsReturned /\ Len(calls) >= 1 /\ calls[1].outcome = OK) =>
        LET snapshot == calls[1].result
        IN /\ Len(TagWrites) <= Len(op.tags)
           /\ \A i \in 1..Len(op.tags) :
                 (\E j \in 1..Len(snapshot) : SameContent(op.tags[i], snapshot[j]))
                 => ~\E k \in 1..Len(TagWrites) :
                        SameContent(TagWrites[k].args.tag, op.tags[i])

\* C5 as stated: at most one Tag per (entry, template) pair: starting from a
\* catalog with at most one tag per pair, after any sequence of upsert_tags
\* calls the catalog still holds at most one tag per pair.
C5_AsStated ==
    \A i, j \in 1..Len(catalogTags) :
        catalogTags[i].template = catalogTags[j].template => i = j

\* the five typed values of some field of the input tag differ from the
\* persisted tag's (a field the persisted tag lacks reads as the default)
TagValuesDiffer(tag, persisted_tag) ==
    \E f \in DOMAIN tag.fields :
        tag.fields[f] # (IF f \in DOMAIN persisted_tag.fields
                         THEN persisted_tag.fields[f] ELSE DefaultTagField)

\* What the policy asks for one input tag against the snapshot: at most one
\* call.  When several snapshot tags carry the template, the update carries
\* the name of the last of them.
ExpectedTagCall(tag, snapshot, entry_name) ==
    LET same == {j \in 1..Len(snapshot) : snapshot[j].template = tag.template}
        last == CHOOSE j \in same : \A k \in same : k <= j
    IN IF same = {}
       THEN <<[api |-> "create_tag",
               args |-> [parent |-> entry_name, tag |-> tag]]>>
       ELSE IF \E j \in same : TagValuesDiffer(tag, snapshot[j])
       THEN <<[api |-> "update_tag",
               args |-> [tag |-> [tag EXCEPT !.name = snapshot[last].name]]]>>
       ELSE <<>>

RECURSIVE ExpectedTagCalls(_, _, _, _)
ExpectedTagCalls(i, tags, snapshot, entry_name) ==
    IF i > Len(tags) THEN <<>>
    ELSE ExpectedTagCall(tags[i], snapshot, entry_name)
         \o ExpectedTagCalls(i + 1, tags, snapshot, entry_name)

====
